---- MODULE Spec2Model ----
(***************************************************************************)
(* Model of src/utils_xiang.py: the pairwise-constraint generators         *)
(* (generate_random_pair and its five variants) and cluster_acc.           *)
(*                                                                         *)
(* Every generator is a rejection-sampling loop followed by a shuffle.     *)
(* One loop iteration (draw tmp1, tmp2; self-pair test; check_ind;         *)
(* classification; append; decrement) is one action; the draws of the      *)
(* random source are the action's parameters.  The shuffle and return are  *)
(* one action, its two permutations being its parameters.                  *)
(*                                                                         *)
(* The two capped loops count their attempts up to 20000**2 and 1000000.   *)
(* Their draws come from the variable stream, the random source as an      *)
(* input of the call: the first pairs it delivers, MaxDraws at most, and   *)
(* after them self pairs (tmp1 == tmp2) only.  The loop takes the first    *)
(* pairs one iteration at a time.  On the self pairs that follow no        *)
(* iteration changes anything but k, up to the cap: RejectRun is that run  *)
(* of iterations as one step.                                              *)
(*                                                                         *)
(* Numbers: cell indices are 0-based as in the source.  Percentiles and    *)
(* quantiles are kept exactly, scaled by 100 (see percentile).  The float  *)
(* budgets num/2 of generate_random_pair_from_one_CD are kept exactly, in  *)
(* halves.                                                                 *)
(***************************************************************************)
EXTENDS Integers, Sequences, FiniteSets, Bags, TLC

\* ------------------------------------------------------------------ bounds
\* number of cells (columns / samples) of every input
NCells == 3
\* capped variants: the draws of the random source before its self pairs
MaxDraws == 2
\* largest requested pair count num
MaxNum == 2
\* largest number of samples of cluster_acc
MaxSamples == 4

Cells == 0 .. (NCells - 1)

\* ------------------------------------------------------- program constants
\* 20000**2, the attempt cap of generate_random_pair_from_two_CDs
CapTwoCDs == 400000000
\* the attempt cap of generate_random_pair_from_one_CD
CapOneCD == 1000000

VARIABLES
  fn,               \* the generator that was called
  pc,               \* "loop": in the while loop; "done": returned
  y,                \* labels: y of generate_random_pair, y_pred of the k-means variant
  label_cell_indx,  \* candidate pool of generate_random_pair
  error_rate,       \* <<p, q>>: the float nearest p/q
  latent_embedding, \* row -> column -> value
  markers,          \* gene row 0..3 -> cell -> value
  LC, HC,           \* percentiles (two_CDs, one_CD)
  ML, CL,           \* quantiles, in percent (proteins, embedding_clustering)
  low1, high1,      \* quantiles, in percent (CD_markers, cannot-link rules)
  low2, high2,      \* quantiles, in percent (CD_markers, must-link rules)
  num0,             \* the requested count
  num,              \* the remaining count
  num1, num2,       \* one_CD: remaining must-link / cannot-link budget, in halves
  k,                \* attempt counter of the capped variants
  error_num,        \* flips made so far (generate_random_pair)
  ml_ind1, ml_ind2, \* must-link list
  cl_ind1, cl_ind2, \* cannot-link list
  stream,           \* capped variants: the pairs <<tmp1, tmp2>> random.randint delivers
                    \* next; after them it delivers self pairs
  draws,            \* history: candidate pairs drawn so far by a capped variant
  accepted,         \* history: the accepted pairs <<tmp1, tmp2, list>>, in order
  y_true, y_pred,   \* cluster_acc: the label vectors, 0-based
  ind,              \* cluster_acc: the assignment, row (predicted) -> column (true)
  acc               \* cluster_acc: the result <<numerator, denominator>>

vars == <<fn, pc, y, label_cell_indx, error_rate, latent_embedding, markers,
          LC, HC, ML, CL, low1, high1, low2, high2, num0, num, num1, num2, k, error_num,
          ml_ind1, ml_ind2, cl_ind1, cl_ind2, stream, draws, accepted,
          y_true, y_pred, ind, acc>>

\* what no generator assigns after its first line: its inputs, and the
\* variables of cluster_acc
inputs == <<fn, y, label_cell_indx, error_rate, latent_embedding, markers,
            LC, HC, ML, CL, low1, high1, low2, high2, num0,
            y_true, y_pred, ind, acc>>

\* ----------------------------------------------------------------- helpers
Min(a, b) == IF a <= b THEN a ELSE b
Abs(a) == IF a >= 0 THEN a ELSE -a

\* check_ind with the candidate compared crosswise: (ind1, ind2) against (l2, l1)
check_ind_crossed(ind1, ind2, ind_list1, ind_list2) ==
  \E i \in 1 .. Min(Len(ind_list1), Len(ind_list2)) :
     ind1 = ind_list2[i] /\ ind2 = ind_list1[i]

\* zip(ind_list1, ind_list2) scanned for an exact ordered match
check_ind(ind1, ind2, ind_list1, ind_list2) ==
  \E i \in 1 .. Min(Len(ind_list1), Len(ind_list2)) :
     ind1 = ind_list1[i] /\ ind2 = ind_list2[i]

\* np.random.permutation(n), as the 1-based index sequences it can return
permutation(n) ==
  { p \in [1 .. n -> 1 .. n] : \A i, j \in 1 .. n : p[i] = p[j] => i = j }

\* a[index]: numpy indexing of an array by an index array
Take(a, index) == [i \in 1 .. Len(index) |-> a[index[i]]]

\* np.percentile(a, q) for a 1-based sequence a and q in percent (np.quantile
\* with q/100): linear interpolation at the virtual index q/100*(n-1) of the
\* sorted data.  The result is scaled by 100, so that it stays an integer.
percentile(a, q) ==
  LET s   == SortSeq(a, LAMBDA u, v : u < v)
      pos == q * (Len(a) - 1)
      lo  == pos \div 100
      rem == pos % 100
  IN  IF rem = 0 THEN 100 * s[lo + 1]
      ELSE 100 * s[lo + 1] + rem * (s[lo + 2] - s[lo + 1])

\* a[r, :] as a 1-based sequence
Row(a, r) == [i \in 1 .. NCells |-> a[r][i - 1]]

\* .append on one of the two lists, and the history of accepted pairs
AppendML(tmp1, tmp2) ==
  /\ ml_ind1' = Append(ml_ind1, tmp1)
  /\ ml_ind2' = Append(ml_ind2, tmp2)
  /\ UNCHANGED <<cl_ind1, cl_ind2>>
  /\ accepted' = Append(accepted, <<tmp1, tmp2, "ml">>)

AppendCL(tmp1, tmp2) ==
  /\ cl_ind1' = Append(cl_ind1, tmp1)
  /\ cl_ind2' = Append(cl_ind2, tmp2)
  /\ UNCHANGED <<ml_ind1, ml_ind2>>
  /\ accepted' = Append(accepted, <<tmp1, tmp2, "cl">>)

\* `continue`
Continue == UNCHANGED <<ml_ind1, ml_ind2, cl_ind1, cl_ind2, accepted>>

\* the loop without its self-pair test
Rejected_no_self_test(tmp1, tmp2) == check_ind(tmp1, tmp2, ml_ind1, ml_ind2)

\* the loop with the candidate compared with the cannot-link list as well
Rejected_both_lists(tmp1, tmp2) ==
  \/ tmp1 = tmp2
  \/ check_ind(tmp1, tmp2, ml_ind1, ml_ind2)
  \/ check_ind(tmp1, tmp2, cl_ind1, cl_ind2)

\* the two tests every loop makes before it classifies the candidate
Rejected(tmp1, tmp2) ==
  \/ tmp1 = tmp2
  \/ check_ind(tmp1, tmp2, ml_ind1, ml_ind2)

\* ------------------------------------------------------ the while conditions
Capped == fn \in {"two_CDs", "one_CD"}
Cap == IF fn = "two_CDs" THEN CapTwoCDs ELSE CapOneCD

\* the while conditions with the cap tested by <= instead of <
LoopCondition_cap_inclusive ==
  CASE fn = "two_CDs" -> num > 0 /\ k <= CapTwoCDs
    [] fn = "one_CD"  -> (num1 > 0 \/ num2 > 0) /\ k <= CapOneCD
    [] OTHER          -> num > 0

\* is the while condition true
LoopCondition ==
  CASE fn = "two_CDs" -> num > 0 /\ k < CapTwoCDs
    [] fn = "one_CD"  -> (num1 > 0 \/ num2 > 0) /\ k < CapOneCD
    [] OTHER          -> num > 0

\* ------------------------------------------------------ generate_random_pair
\* error_rate is a Python float, a binary64: the variable error_rate holds
\* <<p, q>> and stands for the float nearest p/q (what the literal or the
\* division p/q evaluates to). A float is [m |-> <<l0, l1, l2>>, e |-> a]: the
\* value (l0 + l1 * Limb + l2 * Limb^2) * 2^(a - 52), the 53-bit significand in
\* three limbs of 18, 18 and 17 bits, and <<0, 0, 0>> for 0.0.
Limb == 2^18

Zero == [m |-> <<0, 0, 0>>, e |-> 0]

\* p/q brought into [1, 2): <<p', q', a>> with p/q = (p'/q') * 2^a
RECURSIVE Scaled(_, _, _)
Scaled(p, q, a) ==
  IF p >= 2 * q THEN Scaled(p, 2 * q, a + 1)
  ELSE IF p < q THEN Scaled(2 * p, q, a - 1)
  ELSE <<p, q, a>>

\* the significand plus one unit in the last place
Increment(l) ==
  IF l[1] + 1 < Limb THEN <<l[1] + 1, l[2], l[3]>>
  ELSE IF l[2] + 1 < Limb THEN <<0, l[2] + 1, l[3]>>
  ELSE <<0, 0, l[3] + 1>>

\* a significand rounded up to 2^53 is 2^52 with the next exponent
Normal(l, a) ==
  IF l[3] = 2^17 THEN [m |-> <<0, 0, 2^16>>, e |-> a + 1] ELSE [m |-> l, e |-> a]

\* the float nearest p/q (round to nearest, ties to even), by long division
Double(p, q) ==
  IF p = 0 THEN Zero
  ELSE LET s  == Scaled(p, q, 0)
           d  == s[2]
           r0 == s[1] - d
           d1 == (r0 * 2^16) \div d
           r1 == (r0 * 2^16) % d
           d2 == (r1 * Limb) \div d
           r2 == (r1 * Limb) % d
           d3 == (r2 * Limb) \div d
           r3 == (r2 * Limb) % d
           l  == <<d3, d2, 2^16 + d1>>
           up == 2 * r3 > d \/ (2 * r3 = d /\ d3 % 2 = 1)
       IN  Normal(IF up THEN Increment(l) ELSE l, s[3])

\* the number of binary digits of a natural number
RECURSIVE BitLength(_)
BitLength(x) == IF x = 0 THEN 0 ELSE 1 + BitLength(x \div 2)

\* float * int: the exact product rounded to 53 bits (nearest, ties to even)
FloatTimes(f, n) ==
  IF n = 0 \/ f.m[3] = 0 THEN Zero
  ELSE LET t0 == f.m[1] * n
           t1 == f.m[2] * n + (t0 \div Limb)
           t2 == f.m[3] * n + (t1 \div Limb)
           p0 == t0 % Limb
           p1 == t1 % Limb
           sh == BitLength(t2) - 17
           S  == 2^sh
           U  == 2^(18 - sh)
           l  == << (p0 \div S) + (p1 % S) * U, (p1 \div S) + (t2 % S) * U, t2 \div S >>
           rem == p0 % S
           up == sh > 0 /\ (2 * rem > S \/ (2 * rem = S /\ l[1] % 2 = 1))
       IN  Normal(IF up THEN Increment(l) ELSE l, f.e + sh)

\* int against float: 1 when i > f, 0 when i = f, -1 when i < f
IntCompare(i, f) ==
  IF f.m[3] = 0 THEN (IF i = 0 THEN 0 ELSE 1)
  ELSE IF i = 0 THEN -1
  ELSE IF f.e < 0 THEN 1
  ELSE IF f.e >= BitLength(i) THEN -1
  ELSE LET top == i * 2^(16 - f.e)
       IN  IF top > f.m[3] THEN 1
           ELSE IF top < f.m[3] THEN -1
           ELSE IF f.m[1] = 0 /\ f.m[2] = 0 THEN 0 ELSE -1

\* error_rate*num0, a float
Budget == FloatTimes(Double(error_rate[1], error_rate[2]), num0)

\* the budget test with > instead of >=
BudgetSpent_strict == IntCompare(error_num, Budget) > 0

\* error_num >= error_rate*num0
BudgetSpent == IntCompare(error_num, Budget) >= 0

Iter_random_pair(tmp1, tmp2) ==
  /\ fn = "random_pair"
  /\ pc = "loop"
  /\ LoopCondition
  /\ IF Rejected(tmp1, tmp2)
       THEN Continue /\ UNCHANGED <<num, error_num>>
       ELSE /\ IF y[tmp1] = y[tmp2]
                 THEN IF BudgetSpent
                        THEN AppendML(tmp1, tmp2) /\ UNCHANGED error_num
                        ELSE AppendCL(tmp1, tmp2) /\ error_num' = error_num + 1
                 ELSE IF BudgetSpent
                        THEN AppendCL(tmp1, tmp2) /\ UNCHANGED error_num
                        ELSE AppendML(tmp1, tmp2) /\ error_num' = error_num + 1
            /\ num' = num - 1
  /\ UNCHANGED <<inputs, pc, num1, num2, k, stream, draws>>

\* ---------------------------------------- generate_random_pair_from_proteins
\* norm(latent_embedding[i] - latent_embedding[j], 2), for points of one coordinate
Dist(i, j) == Abs(latent_embedding[i][0] - latent_embedding[j][0])

\* np.tril(latent_dist, -1).flatten(), then the entries > 0
latent_dist_vec ==
  LET flat == [p \in 1 .. NCells * NCells |->
                 LET i == (p - 1) \div NCells
                     j == (p - 1) % NCells
                 IN  IF i > j THEN Dist(i, j) ELSE 0]
  IN  SelectSeq(flat, LAMBDA d : d > 0)

\* cutoff_CL taken at the quantile ML
cutoff_CL_at_ML == percentile(latent_dist_vec, ML)

cutoff_ML == percentile(latent_dist_vec, ML)
cutoff_CL == percentile(latent_dist_vec, CL)

Iter_from_proteins(tmp1, tmp2) ==
  /\ fn = "proteins"
  /\ pc = "loop"
  /\ LoopCondition
  /\ IF Rejected(tmp1, tmp2)
       THEN Continue /\ UNCHANGED num
       ELSE IF 100 * Dist(tmp1, tmp2) < cutoff_ML
              THEN AppendML(tmp1, tmp2) /\ num' = num - 1
              ELSE IF 100 * Dist(tmp1, tmp2) > cutoff_CL
                     THEN AppendCL(tmp1, tmp2) /\ num' = num - 1
                     ELSE Continue /\ UNCHANGED num
  /\ UNCHANGED <<inputs, pc, num1, num2, k, error_num, stream, draws>>

\* ---------------------------- generate_random_pair_from_embedding_clustering
Iter_from_embedding_clustering(tmp1, tmp2) ==
  /\ fn = "embedding_clustering"
  /\ pc = "loop"
  /\ LoopCondition
  /\ IF Rejected(tmp1, tmp2)
       THEN Continue /\ UNCHANGED num
       ELSE IF y[tmp1] = y[tmp2]
              THEN AppendML(tmp1, tmp2) /\ num' = num - 1
              ELSE IF y[tmp1] # y[tmp2] /\ 100 * Dist(tmp1, tmp2) > cutoff_CL
                     THEN AppendCL(tmp1, tmp2) /\ num' = num - 1
                     ELSE Continue /\ UNCHANGED num
  /\ UNCHANGED <<inputs, pc, num1, num2, k, error_num, stream, draws>>

\* ----------------------------------------- generate_random_pair_from_two_CDs
lc1 == percentile(Row(latent_embedding, 0), LC)
lc2 == percentile(Row(latent_embedding, 1), LC)
mc1 == percentile(Row(latent_embedding, 0), HC)
mc2 == percentile(Row(latent_embedding, 1), HC)

\* latent_embedding[r, c], on the scale of the percentiles
E(r, c) == 100 * latent_embedding[r][c]

\* tmp1 = random.randint(...); tmp2 = random.randint(...) in a capped loop:
\* the next pair of the random source
Randint(tmp1, tmp2) ==
  /\ stream # <<>>
  /\ <<tmp1, tmp2>> = Head(stream)
  /\ stream' = Tail(stream)

Iter_from_two_CDs(tmp1, tmp2) ==
  /\ fn = "two_CDs"
  /\ pc = "loop"
  /\ LoopCondition
  /\ k' = k + 1
  /\ Randint(tmp1, tmp2)
  /\ draws' = draws + 1
  /\ IF Rejected(tmp1, tmp2)
       THEN Continue /\ UNCHANGED num
       ELSE IF (E(0, tmp1) > mc1 /\ E(0, tmp2) > mc1) /\ (E(1, tmp1) <= lc2 /\ E(1, tmp2) <= lc2)
              THEN AppendML(tmp1, tmp2) /\ num' = num - 1
       ELSE IF (E(0, tmp1) <= lc1 /\ E(0, tmp2) <= lc1) /\ (E(1, tmp1) > mc2 /\ E(1, tmp2) > mc2)
              THEN AppendML(tmp1, tmp2) /\ num' = num - 1
       ELSE IF (E(0, tmp1) > mc1 /\ E(1, tmp1) <= lc2) /\ (E(0, tmp2) <= lc1 /\ E(1, tmp2) > mc2)
              THEN AppendCL(tmp1, tmp2) /\ num' = num - 1
       ELSE IF (E(0, tmp1) <= lc1 /\ E(1, tmp1) > mc2) /\ (E(0, tmp2) > mc1 /\ E(1, tmp2) <= lc2)
              THEN AppendCL(tmp1, tmp2) /\ num' = num - 1
       ELSE Continue /\ UNCHANGED num
  /\ UNCHANGED <<inputs, pc, num1, num2, error_num>>

\* ------------------------------------------ generate_random_pair_from_one_CD
\* gene = 0, the default
gene == 0
lc1_one == percentile(Row(latent_embedding, gene), LC)
mc1_one == percentile(Row(latent_embedding, gene), HC)

\* num1 and num2 hold num/2, a float, in halves: one pair is two halves
Iter_from_one_CD(tmp1, tmp2) ==
  /\ fn = "one_CD"
  /\ pc = "loop"
  /\ LoopCondition
  /\ k' = k + 1
  /\ Randint(tmp1, tmp2)
  /\ draws' = draws + 1
  /\ IF Rejected(tmp1, tmp2)
       THEN Continue /\ UNCHANGED <<num1, num2>>
       ELSE IF (E(gene, tmp1) > mc1_one /\ E(gene, tmp2) > mc1_one) /\ num1 > 0
              THEN AppendML(tmp1, tmp2) /\ num1' = num1 - 2 /\ UNCHANGED num2
       ELSE IF (E(gene, tmp1) > mc1_one /\ E(gene, tmp2) <= lc1_one) /\ num2 > 0
              THEN AppendCL(tmp1, tmp2) /\ num2' = num2 - 2 /\ UNCHANGED num1
       ELSE IF (E(gene, tmp1) <= lc1_one /\ E(gene, tmp2) > mc1_one) /\ num2 > 0
              THEN AppendCL(tmp1, tmp2) /\ num2' = num2 - 2 /\ UNCHANGED num1
       ELSE Continue /\ UNCHANGED <<num1, num2>>
  /\ UNCHANGED <<inputs, pc, num, error_num>>

\* -------------------------------------- generate_random_pair_from_CD_markers
gene_low1     == percentile(Row(markers, 0), low1)
gene_high1    == percentile(Row(markers, 0), high1)
gene_low2     == percentile(Row(markers, 1), low1)
gene_high2    == percentile(Row(markers, 1), high1)
gene_high1_ml == percentile(Row(markers, 0), high2)
gene_high2_ml == percentile(Row(markers, 1), high2)
gene_low3     == percentile(Row(markers, 2), low2)
gene_high3    == percentile(Row(markers, 2), high2)
gene_low4     == percentile(Row(markers, 3), low2)
gene_high4    == percentile(Row(markers, 3), high2)

\* markers[r, c], on the scale of the quantiles
M(r, c) == 100 * markers[r][c]

\* the if/elif chain of the loop: the number of the first pattern that matches
\* (1, 2: cannot-link; 3..7: must-link), 0 when none does
MarkerPattern(tmp1, tmp2) ==
  IF M(0, tmp1) < gene_low1 /\ M(1, tmp1) > gene_high2
     /\ M(0, tmp2) > gene_high1 /\ M(1, tmp2) < gene_low2 THEN 1
  ELSE IF M(0, tmp2) < gene_low1 /\ M(1, tmp2) > gene_high2
     /\ M(0, tmp1) > gene_high1 /\ M(1, tmp1) < gene_low2 THEN 2
  ELSE IF M(1, tmp1) > gene_high2_ml /\ M(2, tmp1) > gene_high3
     /\ M(1, tmp2) > gene_high2_ml /\ M(2, tmp2) > gene_high3 THEN 3
  ELSE IF M(1, tmp1) > gene_high2_ml /\ M(2, tmp1) < gene_low3
     /\ M(1, tmp2) > gene_high2_ml /\ M(2, tmp2) < gene_low3 THEN 4
  ELSE IF M(0, tmp1) > gene_high1_ml /\ M(2, tmp1) > gene_high3
     /\ M(1, tmp2) > gene_high1_ml /\ M(2, tmp2) > gene_high3 THEN 5
  ELSE IF M(0, tmp1) > gene_high1_ml /\ M(2, tmp1) < gene_low3 /\ M(3, tmp1) > gene_high4
     /\ M(1, tmp2) > gene_high1_ml /\ M(2, tmp2) < gene_low3 /\ M(3, tmp2) > gene_high4 THEN 6
  ELSE IF M(0, tmp1) > gene_high1_ml /\ M(2, tmp1) < gene_low3 /\ M(3, tmp1) < gene_low4
     /\ M(1, tmp2) > gene_high1_ml /\ M(2, tmp2) < gene_low3 /\ M(3, tmp2) < gene_low4 THEN 7
  ELSE 0

\* the list the matching pattern appends to: "cl", "ml" or "continue"
MarkerRule(tmp1, tmp2) ==
  LET p == MarkerPattern(tmp1, tmp2)
  IN  IF p \in {1, 2} THEN "cl" ELSE IF p \in 3 .. 7 THEN "ml" ELSE "continue"

Iter_from_CD_markers(tmp1, tmp2) ==
  /\ fn = "CD_markers"
  /\ pc = "loop"
  /\ LoopCondition
  /\ IF Rejected(tmp1, tmp2)
       THEN Continue /\ UNCHANGED num
       ELSE CASE MarkerRule(tmp1, tmp2) = "cl" -> AppendCL(tmp1, tmp2) /\ num' = num - 1
              [] MarkerRule(tmp1, tmp2) = "ml" -> AppendML(tmp1, tmp2) /\ num' = num - 1
              [] OTHER -> Continue /\ UNCHANGED num
  /\ UNCHANGED <<inputs, pc, num1, num2, k, error_num, stream, draws>>

\* -------------------------------------------- the capped loops' self pairs
\* The iterations of a capped loop once the random source delivers self pairs
\* only: each adds one to k, draws tmp1 == tmp2 and continues (lines 150-154,
\* 203-207), so the while condition holds until k is the cap. All of them are
\* one step: Cap - k iterations.
RejectRun ==
  /\ Capped
  /\ pc = "loop"
  /\ LoopCondition
  /\ stream = <<>>
  /\ k' = Cap
  /\ draws' = draws + (Cap - k)
  /\ Continue
  /\ UNCHANGED <<inputs, pc, num, num1, num2, error_num, stream>>

\* ------------------------------------------------------- shuffle and return
\* the shuffle with ml_ind2 permuted on its own
Shuffle_each_alone(ml_index, cl_index) ==
  /\ ml_ind1' = Take(ml_ind1, ml_index)
  /\ \E other \in permutation(Len(ml_ind2)) : ml_ind2' = Take(ml_ind2, other)
  /\ cl_ind1' = Take(cl_ind1, cl_index)
  /\ cl_ind2' = Take(cl_ind2, cl_index)

Shuffle(ml_index, cl_index) ==
  /\ ml_ind1' = Take(ml_ind1, ml_index)
  /\ ml_ind2' = Take(ml_ind2, ml_index)
  /\ cl_ind1' = Take(cl_ind1, cl_index)
  /\ cl_ind2' = Take(cl_ind2, cl_index)

Return ==
  /\ pc = "loop"
  /\ ~LoopCondition
  /\ \E ml_index \in permutation(Len(ml_ind1)), cl_index \in permutation(Len(cl_ind1)) :
        Shuffle(ml_index, cl_index)
  /\ pc' = "done"
  /\ UNCHANGED <<inputs, num, num1, num2, k, error_num, stream, draws, accepted>>

\* ------------------------------------------------------------------- inputs
ErrorRates == { <<0, 1>>, <<1, 2>>, <<1, 1>>, <<3, 2>> }
Labels == {0, 1}
Pools == { 0 .. m : m \in Cells }
Unused == <<>>

\* Inputs are taken up to a renaming of the cells: the cells are numbered in
\* the order of their data.
NonDecreasing(f) == \A i, j \in Cells : i < j => f[i] <= f[j]

\* points of one coordinate, at least two of them distinct (np.quantile of no
\* distance at all is outside the model)
Points ==
  { [c \in Cells |-> [d \in {0} |-> v[c]]] :
      v \in { w \in [Cells -> {0, 1, 3}] : NonDecreasing(w) /\ w[0] # w[NCells - 1] } }

\* KMeans(n_clusters=2).fit(...).labels_ for points of one coordinate: two
\* non-empty clusters, each an interval of the line
KMeansLabels(pts) ==
  { l \in [Cells -> Labels] :
      /\ \E i, j \in Cells : l[i] # l[j]
      /\ \A i, j \in Cells : pts[i][0] <= pts[j][0] /\ l[i] = 1 => l[j] = 1 \/ pts[i][0] = pts[j][0] }

CDProfiles == << <<2, 0>>, <<1, 1>>, <<0, 2>> >>
TwoCDs ==
  { [r \in 0 .. 1 |-> [c \in Cells |-> CDProfiles[a[c]][r + 1]]] :
      a \in { b \in [Cells -> 1 .. Len(CDProfiles)] : NonDecreasing(b) } }
OneCD ==
  { [r \in {0} |-> v] : v \in { w \in [Cells -> 0 .. 2] : NonDecreasing(w) } }
Percentiles == { <<20, 90>>, <<20, 40>> }
Quantiles == { <<10, 90>>, <<50, 100>>, <<90, 10>>, <<0, 100>> }

\* cell profiles <<markers[0, c], .., markers[3, c]>>, in three families
MarkerProfiles ==
  { << <<0, 2, 0, 0>>, <<2, 0, 2, 2>>, <<2, 2, 2, 0>>, <<1, 1, 0, 2>> >>,
    << <<2, 0, 0, 2>>, <<2, 2, 0, 2>>, <<0, 0, 2, 0>> >>,
    << <<2, 0, 0, 0>>, <<2, 2, 0, 0>>, <<0, 0, 2, 2>> >> }
Markers ==
  UNION { { [r \in 0 .. 3 |-> [c \in Cells |-> t[a[c]][r + 1]]] :
              a \in { b \in [Cells -> 1 .. Len(t)] : NonDecreasing(b) } } :
          t \in MarkerProfiles }
MarkerQuantiles == { <<40, 60, 20, 80>>, <<40, 60, 70, 30>> }

\* the first draws of the random source in a call of a capped variant
Streams == UNION { [1 .. n -> Cells \X Cells] : n \in 0 .. MaxDraws }

\* k = 0 before the loop; the random source of the call
Attempts ==
  /\ stream \in (IF Capped THEN Streams ELSE { <<>> })
  /\ k = 0
  /\ draws = 0

\* the state before the first test of the while condition; num1 = num2 = num/2
\* is num0 halves (a true division: the result is a float)
Start ==
  /\ pc = "loop"
  /\ num = num0
  /\ num1 = num0 /\ num2 = num0
  /\ error_num = 0
  /\ ml_ind1 = <<>> /\ ml_ind2 = <<>>
  /\ cl_ind1 = <<>> /\ cl_ind2 = <<>>
  /\ accepted = <<>>

NoLabels == y = Unused /\ label_cell_indx = {} /\ error_rate = <<0, 1>>
NoEmbedding == latent_embedding = Unused /\ LC = 0 /\ HC = 0 /\ ML = 0 /\ CL = 0
NoMarkers == markers = Unused /\ low1 = 0 /\ high1 = 0 /\ low2 = 0 /\ high2 = 0

Init_random_pair ==
  /\ fn = "random_pair"
  /\ y \in [Cells -> Labels]
  /\ label_cell_indx \in Pools
  /\ error_rate \in ErrorRates
  /\ NoEmbedding /\ NoMarkers

\* a call whose budget product is inexact: 0.28 * 25 is 7.000000000000001
Init_random_pair_inexact ==
  /\ fn = "random_pair"
  /\ y \in [Cells -> Labels]
  /\ label_cell_indx = 0 .. 1
  /\ error_rate = <<7, 25>>
  /\ num0 = 25
  /\ NoEmbedding /\ NoMarkers

Init_from_proteins ==
  /\ fn = "proteins"
  /\ latent_embedding \in Points
  /\ \E q \in Quantiles : ML = q[1] /\ CL = q[2]
  /\ LC = 0 /\ HC = 0
  /\ NoLabels /\ NoMarkers

Init_from_embedding_clustering ==
  /\ fn = "embedding_clustering"
  /\ latent_embedding \in Points
  /\ y \in KMeansLabels(latent_embedding)
  /\ label_cell_indx = {} /\ error_rate = <<0, 1>>
  /\ ML = 0 /\ CL \in {80, 100}
  /\ LC = 0 /\ HC = 0
  /\ NoMarkers

Init_from_two_CDs ==
  /\ fn = "two_CDs"
  /\ latent_embedding \in TwoCDs
  /\ \E q \in Percentiles : LC = q[1] /\ HC = q[2]
  /\ ML = 0 /\ CL = 0
  /\ NoLabels /\ NoMarkers

Init_from_one_CD ==
  /\ fn = "one_CD"
  /\ latent_embedding \in OneCD
  /\ \E q \in Percentiles : LC = q[1] /\ HC = q[2]
  /\ ML = 0 /\ CL = 0
  /\ NoLabels /\ NoMarkers

Init_from_CD_markers ==
  /\ fn = "CD_markers"
  /\ markers \in Markers
  /\ \E q \in MarkerQuantiles :
        low1 = q[1] /\ high1 = q[2] /\ low2 = q[3] /\ high2 = q[4]
  /\ NoLabels /\ NoEmbedding

NoAcc == y_true = Unused /\ y_pred = Unused /\ ind = Unused /\ acc = Unused

Init ==
  /\ \/ /\ \/ Init_random_pair
           \/ Init_from_proteins
           \/ Init_from_embedding_clustering
           \/ Init_from_two_CDs
           \/ Init_from_one_CD
           \/ Init_from_CD_markers
        /\ num0 \in 0 .. MaxNum
     \/ Init_random_pair_inexact
  /\ Start
  /\ Attempts
  /\ NoAcc

Next ==
  \/ \E tmp1, tmp2 \in label_cell_indx : Iter_random_pair(tmp1, tmp2)
  \/ \E tmp1, tmp2 \in Cells : Iter_from_proteins(tmp1, tmp2)
  \/ \E tmp1, tmp2 \in Cells : Iter_from_embedding_clustering(tmp1, tmp2)
  \/ \E tmp1, tmp2 \in Cells : Iter_from_two_CDs(tmp1, tmp2)
  \/ \E tmp1, tmp2 \in Cells : Iter_from_one_CD(tmp1, tmp2)
  \/ \E tmp1, tmp2 \in Cells : Iter_from_CD_markers(tmp1, tmp2)
  \/ RejectRun
  \/ Return

Spec == Init /\ [][Next]_vars

\* ------------------------------------------------------------- cluster_acc
\* the largest element of a non-empty finite set of integers
Max(S) == CHOOSE m \in S : \A x \in S : x <= m

\* y.size, for a 0-based vector
Size(v) == Cardinality(DOMAIN v)

\* D = max(y_pred.max(), y_true.max()) + 1
DimD(yt, yp) == Max({ yp[i] : i \in DOMAIN yp } \cup { yt[i] : i \in DOMAIN yt }) + 1

\* w[p, t]: the number of samples i with y_pred[i] = p and y_true[i] = t
W(yt, yp) ==
  [p \in 0 .. DimD(yt, yp) - 1 |->
     [t \in 0 .. DimD(yt, yp) - 1 |->
        Cardinality({ i \in DOMAIN yp : yp[i] = p /\ yt[i] = t })]]

\* the cost matrix with the sign turned: w - w.max()
Cost_sign_turned(w) ==
  LET d  == Cardinality(DOMAIN w)
      mx == Max({ w[p][t] : p \in 0 .. d - 1, t \in 0 .. d - 1 })
  IN  [p \in 0 .. d - 1 |-> [t \in 0 .. d - 1 |-> w[p][t] - mx]]

\* w.max() - w
Cost(w) ==
  LET d  == Cardinality(DOMAIN w)
      mx == Max({ w[p][t] : p \in 0 .. d - 1, t \in 0 .. d - 1 })
  IN  [p \in 0 .. d - 1 |-> [t \in 0 .. d - 1 |-> mx - w[p][t]]]

RECURSIVE SumOver(_, _)
\* the sum of f[x] over x in S
SumOver(f, S) ==
  IF S = {} THEN 0
  ELSE LET x == CHOOSE z \in S : TRUE IN f[x] + SumOver(f, S \ {x})

\* the one-to-one assignments of the rows 0..d-1 to the columns 0..d-1
Assignments(d) ==
  { m \in [0 .. d - 1 -> 0 .. d - 1] : \A p, q \in 0 .. d - 1 : m[p] = m[q] => p = q }

\* the sum of matrix[p][m[p]] over the rows p
Total(matrix, m) == SumOver([p \in DOMAIN m |-> matrix[p][m[p]]], DOMAIN m)

\* sklearn's linear_assignment(X): an assignment of least total cost; which
\* of several the library returns is left open
linear_assignment(X) ==
  LET d == Cardinality(DOMAIN X)
  IN  { m \in Assignments(d) : \A o \in Assignments(d) : Total(X, m) <= Total(X, o) }

cluster_acc ==
  /\ fn = "cluster_acc"
  /\ pc = "call"
  /\ \E m \in linear_assignment(Cost(W(y_true, y_pred))) :
        /\ ind' = m
        /\ acc' = <<Total(W(y_true, y_pred), m), Size(y_pred)>>
  /\ pc' = "done"
  /\ UNCHANGED <<fn, y, label_cell_indx, error_rate, latent_embedding, markers,
                 LC, HC, ML, CL, low1, high1, low2, high2, num0, y_true, y_pred,
                 num, num1, num2, k, error_num, ml_ind1, ml_ind2, cl_ind1, cl_ind2,
                 stream, draws, accepted>>

AccLabels == 0 .. 2

\* non-empty, equal-length vectors of non-negative integer labels; the samples
\* are numbered in the order of their true labels
InitAcc ==
  /\ fn = "cluster_acc"
  /\ pc = "call"
  /\ \E n \in 1 .. MaxSamples :
        /\ y_true \in { v \in [0 .. n - 1 -> AccLabels] :
                          \A i, j \in 0 .. n - 1 : i < j => v[i] <= v[j] }
        /\ y_pred \in [0 .. n - 1 -> AccLabels]
  /\ ind = Unused /\ acc = Unused
  /\ NoLabels /\ NoEmbedding /\ NoMarkers
  /\ num0 = 0 /\ num = 0 /\ num1 = 0 /\ num2 = 0 /\ k = 0 /\ error_num = 0
  /\ ml_ind1 = <<>> /\ ml_ind2 = <<>> /\ cl_ind1 = <<>> /\ cl_ind2 = <<>>
  /\ stream = <<>> /\ draws = 0 /\ accepted = <<>>

NextAcc == cluster_acc

AccSpec == InitAcc /\ [][NextAcc]_vars

\* ================================================================ properties
\* the ordered pairs of a list, by position
PairAt(l1, l2, i) == <<l1[i], l2[i]>>

NoSelfPair(l1, l2) == \A i \in 1 .. Len(l1) : l1[i] # l2[i]

NoRepeatedPair(l1, l2) ==
  \A i, j \in 1 .. Len(l1) : i # j => PairAt(l1, l2, i) # PairAt(l1, l2, j)

\* how often the pair p stands in a list
PairCount(l1, l2, p) == Cardinality({ i \in 1 .. Len(l1) : PairAt(l1, l2, i) = p })

\* how often the loop accepted the pair p into the list named
AcceptedCount(list, p) ==
  Cardinality({ i \in 1 .. Len(accepted) : accepted[i] = <<p[1], p[2], list>> })

\* how many pairs the loop accepted into the list named
AcceptedCountAll(list) ==
  Cardinality({ i \in 1 .. Len(accepted) : accepted[i][3] = list })

\* C1: in every state of every generator, in the loop and after the return, no
\* must-link pair and no cannot-link pair links a cell to itself.
C1_NoSelfPair ==
  /\ NoSelfPair(ml_ind1, ml_ind2)
  /\ NoSelfPair(cl_ind1, cl_ind2)

\* a capped generator drew two candidates, rejected one of them, accepted the
\* other and returned it
C1_Witness ==
  /\ fn = "two_CDs" /\ pc = "done"
  /\ k = 2 /\ draws = 2
  /\ Len(accepted) = 1
  /\ Len(ml_ind1) + Len(cl_ind1) = 1

\* C2: in every state of every generator the must-link list holds no ordered
\* pair twice, also when generate_random_pair's error injection puts a pair of
\* different labels into it.
C2_NoDuplicateMustLink == NoRepeatedPair(ml_ind1, ml_ind2)

\* generate_random_pair returned two must-link pairs, one of them flipped
C2_Witness ==
  /\ fn = "random_pair" /\ pc = "done"
  /\ Len(ml_ind1) = 2
  /\ error_num > 0
  /\ \E i \in 1 .. 2 : y[ml_ind1[i]] # y[ml_ind2[i]]

\* C3: no ordered pair stands twice in the same list, for the must-link list
\* and for the cannot-link list.
C3_NoDuplicateInEitherList ==
  /\ NoRepeatedPair(ml_ind1, ml_ind2)
  /\ NoRepeatedPair(cl_ind1, cl_ind2)

\* C4: every generator returns when its input cannot satisfy the request: in
\* every state the call has returned, or some draw of the random source makes
\* a step that changes the state (a pair accepted, an attempt counted, the
\* return).  Where neither holds, every iteration leaves every variable as it
\* is and the while condition stays true for ever.
C4_EveryVariantReturns == pc = "done" \/ ENABLED <<Next>>_vars

\* C5: the capped generators count every candidate drawn (k = draws), never
\* draw more than their cap, leave the loop when k has reached the cap, and
\* return exactly the pairs collected so far.
C5_AttemptCap ==
  Capped =>
    /\ k = draws
    /\ draws <= Cap
    /\ (pc = "loop" /\ k = Cap =>
          /\ ~LoopCondition
          /\ ENABLED Return
          /\ ~ ENABLED (\E tmp1, tmp2 \in Cells :
                          Iter_from_two_CDs(tmp1, tmp2) \/ Iter_from_one_CD(tmp1, tmp2)))
    /\ (pc = "done" =>
          /\ Len(ml_ind1) = AcceptedCountAll("ml")
          /\ Len(cl_ind1) = AcceptedCountAll("cl")
          /\ k <= Cap)

\* generate_random_pair_from_two_CDs returned at the cap with pairs missing
C5_Witness ==
  /\ fn = "two_CDs" /\ pc = "done"
  /\ k = CapTwoCDs
  /\ num > 0
  /\ Len(accepted) > 0

\* C6: the returned pairs are never more than num, are exactly num when no cap
\* was hit, and in generate_random_pair_from_one_CD each list holds at most
\* num/2 pairs.
C6_CountWithinNum ==
  /\ Len(ml_ind1) + Len(cl_ind1) <= num0
  /\ (pc = "done" /\ ~(Capped /\ k >= Cap) => Len(ml_ind1) + Len(cl_ind1) = num0)
  /\ (fn = "one_CD" => 2 * Len(ml_ind1) <= num0 /\ 2 * Len(cl_ind1) <= num0)

\* C7: after the return the two arrays of a list have one length, and each
\* list holds every pair as often as the loop accepted it into that list,
\* whichever two permutations were drawn.
C7_ShuffleKeepsPairs ==
  pc = "done" =>
    /\ Len(ml_ind1) = Len(ml_ind2)
    /\ Len(cl_ind1) = Len(cl_ind2)
    /\ \A p \in Cells \X Cells :
          /\ PairCount(ml_ind1, ml_ind2, p) = AcceptedCount("ml", p)
          /\ PairCount(cl_ind1, cl_ind2, p) = AcceptedCount("cl", p)

\* two different must-link pairs came back in the order opposite to the one
\* they were accepted in
C7_Witness ==
  /\ pc = "done"
  /\ Len(ml_ind1) = 2 /\ Len(accepted) = 2
  /\ accepted[1] = <<ml_ind1[2], ml_ind2[2], "ml">>
  /\ accepted[2] = <<ml_ind1[1], ml_ind2[1], "ml">>
  /\ accepted[1] # accepted[2]

\* the largest number of samples a one-to-one mapping m of the labels 0..D-1
\* can make agree: positions i with m(y_pred[i]) = y_true[i]
MaxAgreement(yt, yp) ==
  Max({ Cardinality({ i \in DOMAIN yp : m[yp[i]] = yt[i] }) : m \in Assignments(DimD(yt, yp)) })

\* y_pred with its labels renamed by s
Relabel(yp, s) == [i \in DOMAIN yp |-> s[yp[i]]]

\* the numerators cluster_acc can return for the vectors given
AccNumerators(yt, yp) ==
  { Total(W(yt, yp), m) : m \in linear_assignment(Cost(W(yt, yp))) }

\* the one-to-one renamings of the labels
Relabelings == { s \in [AccLabels -> AccLabels] : \A a, b \in AccLabels : s[a] = s[b] => a = b }

ExampleTrue == [i \in 0 .. 3 |-> IF i < 2 THEN 0 ELSE 1]
ExamplePermuted == [i \in 0 .. 3 |-> IF i < 2 THEN 1 ELSE 0]
ExampleUncorrelated == [i \in 0 .. 3 |-> i % 2]

\* C8: cluster_acc returns the largest agreement over the one-to-one label
\* mappings, divided by the number of samples; the result lies in [0, 1], is
\* 1 for y_true=[0,0,1,1], y_pred=[1,1,0,0], is 1/2 for y_true=[0,0,1,1],
\* y_pred=[0,1,0,1], and is the same for y_pred with its labels renamed.
C8_ClusterAcc ==
  fn = "cluster_acc" /\ pc = "done" =>
    /\ acc[2] = Size(y_true)
    /\ acc[1] = MaxAgreement(y_true, y_pred)
    /\ 0 <= acc[1] /\ acc[1] <= acc[2]
    /\ (y_true = ExampleTrue /\ y_pred = ExamplePermuted => acc[1] = acc[2])
    /\ (y_true = ExampleTrue /\ y_pred = ExampleUncorrelated => 2 * acc[1] = acc[2])
    /\ \A s \in Relabelings : AccNumerators(y_true, Relabel(y_pred, s)) = {acc[1]}

\* cluster_acc returned 2/4 for the uncorrelated example
C8_Witness ==
  /\ fn = "cluster_acc" /\ pc = "done"
  /\ y_true = ExampleTrue /\ y_pred = ExampleUncorrelated
  /\ acc = <<2, 4>>

\* min(num0, ceil(error_rate * num0)), with the product the float the code
\* computes: the least count in 0 .. num0 that is not below the product, num0
\* when there is none
FlipBudget ==
  LET product == Budget
      enough  == { c \in 0 .. num0 : IntCompare(c, product) >= 0 }
  IN  IF enough = {} THEN num0
      ELSE CHOOSE c \in enough : \A other \in enough : c <= other

\* was the i-th accepted pair stored against its labels
Flipped(i) ==
  LET a == accepted[i] IN (y[a[1]] = y[a[2]]) # (a[3] = "ml")

\* C9: generate_random_pair flips exactly the first min(num, ceil(error_rate *
\* num)) accepted pairs; error_num counts them and is that number at the
\* return; later pairs are must-link iff their labels are equal; with
\* error_rate = 0 every must-link pair has equal and every cannot-link pair
\* different labels.
C9_ErrorInjection ==
  fn = "random_pair" =>
    LET flips == FlipBudget IN
    /\ \A i \in 1 .. Len(accepted) : Flipped(i) <=> i <= flips
    /\ error_num = Min(Len(accepted), flips)
    /\ (pc = "done" => error_num = flips)
    /\ (error_rate[1] = 0 =>
          /\ \A i \in 1 .. Len(ml_ind1) : y[ml_ind1[i]] = y[ml_ind2[i]]
          /\ \A i \in 1 .. Len(cl_ind1) : y[cl_ind1[i]] # y[cl_ind2[i]])

\* generate_random_pair returned a flipped pair followed by one that is not
C9_Witness ==
  /\ fn = "random_pair" /\ pc = "done"
  /\ num0 = 2 /\ error_num = 1
  /\ Flipped(1) /\ ~Flipped(2)

\* C10: in generate_random_pair_from_proteins every must-link pair lies
\* strictly below the ML-quantile of the non-zero lower-triangular distances,
\* every cannot-link pair strictly above the CL-quantile, num falls only with
\* an accepted pair, so a candidate between the two cutoffs (ends included) is
\* in neither list; and with ML-cutoff <= CL-cutoff no ordered pair is in both
\* lists.
C10_DistanceCutoffs ==
  fn = "proteins" =>
    LET cutML == percentile(latent_dist_vec, ML)
        cutCL == percentile(latent_dist_vec, CL)
    IN  /\ \A i \in 1 .. Len(ml_ind1) : 100 * Dist(ml_ind1[i], ml_ind2[i]) < cutML
        /\ \A i \in 1 .. Len(cl_ind1) : 100 * Dist(cl_ind1[i], cl_ind2[i]) > cutCL
        /\ num = num0 - Len(accepted)
        /\ \A a, b \in Cells :
              cutML <= 100 * Dist(a, b) /\ 100 * Dist(a, b) <= cutCL =>
                 /\ PairCount(ml_ind1, ml_ind2, <<a, b>>) = 0
                 /\ PairCount(cl_ind1, cl_ind2, <<a, b>>) = 0
        /\ (cutML <= cutCL =>
              \A p \in Cells \X Cells :
                 PairCount(ml_ind1, ml_ind2, p) = 0 \/ PairCount(cl_ind1, cl_ind2, p) = 0)

\* the distance variant returned a must-link and a cannot-link pair for an
\* input that also has a pair of distinct cells between the two cutoffs
C10_Witness ==
  /\ fn = "proteins" /\ pc = "done"
  /\ Len(ml_ind1) > 0 /\ Len(cl_ind1) > 0
  /\ percentile(latent_dist_vec, ML) <= percentile(latent_dist_vec, CL)
  /\ \E a, b \in Cells :
        /\ a # b
        /\ percentile(latent_dist_vec, ML) <= 100 * Dist(a, b)
        /\ 100 * Dist(a, b) <= percentile(latent_dist_vec, CL)

\* C11: generate_random_pair compares a candidate with the stored must-link
\* pairs only: in the loop a candidate of the pool is rejected exactly when
\* its two cells are equal or the must-link list holds it, whatever the
\* cannot-link list holds, and every pair accepted so far was, when it was
\* accepted, in no must-link pair stored before it; so one call can return an
\* ordered pair in both lists (the witness).
C11_OnlyMustLinkCompared ==
  fn = "random_pair" =>
    /\ pc = "loop" =>
         \A a, b \in label_cell_indx :
            Rejected(a, b) <=> (a = b \/ PairCount(ml_ind1, ml_ind2, <<a, b>>) > 0)
    /\ \A i, j \in 1 .. Len(accepted) :
         (i < j /\ accepted[i][3] = "ml")
           => <<accepted[i][1], accepted[i][2]>> # <<accepted[j][1], accepted[j][2]>>

\* generate_random_pair returned one ordered pair in its must-link and in its
\* cannot-link list
C11_Witness ==
  /\ fn = "random_pair" /\ pc = "done"
  /\ \E p \in Cells \X Cells :
        /\ PairCount(ml_ind1, ml_ind2, p) > 0
        /\ PairCount(cl_ind1, cl_ind2, p) > 0

\* what one iteration of generate_random_pair_from_CD_markers does with the
\* candidate (tmp1, tmp2): "ml", "cl" or "continue" (rejected)
C12_Outcome(tmp1, tmp2) ==
  IF Rejected(tmp1, tmp2) THEN "continue" ELSE MarkerRule(tmp1, tmp2)

\* C12: in generate_random_pair_from_CD_markers the classification of a
\* candidate is symmetric in its two cells: for two distinct cells a, b and a
\* stored must-link list holding neither (a, b) nor (b, a), the candidates
\* (a, b) and (b, a) get the same outcome (must-link, cannot-link or rejected).
C12_SymmetricClassification ==
  fn = "CD_markers" /\ pc = "loop" =>
    \A a, b \in Cells :
       ( /\ a # b
         /\ PairCount(ml_ind1, ml_ind2, <<a, b>>) = 0
         /\ PairCount(ml_ind1, ml_ind2, <<b, a>>) = 0 )
       => C12_Outcome(a, b) = C12_Outcome(b, a)

====
